---- MODULE Spec2Model ----
(***************************************************************************)
(* Password generator widget (VirginiaPat/password-generator-app).         *)
(*                                                                         *)
(* A JavaScript string is modelled as the sequence of its characters, so   *)
(* that indexing (characterPool[randomIndex]), concatenation (+=) and      *)
(* length are the sequence operations; "" is << >>.                        *)
(***************************************************************************)
EXTENDS Integers, Sequences, FiniteSets, TLC

\* ------------------------------------------------------------------ bounds

\* Outcomes of crypto.getRandomValues explored when the generate button is
\* clicked: streams 0..MaxStream.
MaxStream == 1
\* Outcomes of crypto.getRandomValues explored when generateSecurePassword is
\* called directly: streams 0..MaxCallStream.
MaxCallStream == 3
\* getPasswordStrength is probed on lengths MIN-LengthMargin .. MAX+LengthMargin.
LengthMargin == 3
\* navigator.clipboard.writeText promises pending at the same time.
MaxPending == 1
\* Timer handles setTimeout may return: 1..MaxTimerId.
MaxTimerId == 2

\* ---------------------------------------------------- configuration (55-96)

CONFIG ==
    [ PASSWORD_LENGTH |-> [MIN |-> 0, MAX |-> 16, DEFAULT |-> 0],
      STRENGTH_THRESHOLDS |->
          [ TOO_WEAK |-> [min |-> 1, max |-> 4],
            WEAK     |-> [min |-> 5, max |-> 8],
            MEDIUM   |-> [min |-> 9, max |-> 12],
            STRONG   |-> [min |-> 13, max |-> 16] ],
      COPIED_MESSAGE_DURATION |-> 700 ]

CHARACTERS ==
    [ uppercase |-> << "A","B","C","D","E","F","G","H","I","J","K","L","M",
                       "N","O","P","Q","R","S","T","U","V","W","X","Y","Z" >>,
      lowercase |-> << "a","b","c","d","e","f","g","h","i","j","k","l","m",
                       "n","o","p","q","r","s","t","u","v","w","x","y","z" >>,
      numbers   |-> << "0","1","2","3","4","5","6","7","8","9" >>,
      symbols   |-> << "!","@","#","$","%","^","&","*","(",")","_","+","-",
                       "=","[","]","{","}","|",";",":",",",".","<",">","?" >> ]

CSS_CLASSES ==
    [ emptyEvalBox       |-> {"border-grey-200", "bg-grey-850"},
      fullEvalBoxTooWeak |-> {"border-red-500", "bg-red-500"},
      fullEvalBoxWeak    |-> {"border-orange-400", "bg-orange-400"},
      fullEvalBoxMedium  |-> {"border-yellow-300", "bg-yellow-300"},
      fullEvalBoxStrong  |-> {"border-green-strong", "bg-green-strong"} ]

STRENGTH_LABELS ==
    [ TOO_WEAK |-> "too weak!",
      WEAK     |-> "weak",
      MEDIUM   |-> "medium",
      STRONG   |-> "strong" ]

\* The names of the four checkboxes, in the order of elements.checkboxes.
ClassNames == <<"uppercase", "lowercase", "numbers", "symbols">>

\* A strength label is a TLA+ string (it is only assigned and compared, never
\* indexed); null, the other value getPasswordStrength returns, is a string
\* that is no label.
Null == "null"

\* state.copiedTimeoutId is null or a timer handle; handles are integers
\* greater than zero, and null is written 0 (both are falsy in the test of
\* showCopiedMessage).
NoTimeout == 0

\* A JavaScript number that is an integer or NaN.
NaN == [nan |-> TRUE, n |-> 0]
Number(n) == [nan |-> FALSE, n |-> n]

\* A Uint32Array element is an unsigned 32-bit integer. It is held as its two
\* 16-bit halves, value = hi * 65536 + lo, because the model checker's
\* integers are 32-bit signed.
Uint16Modulus == 65536

Uint32(hi, lo) == [hi |-> hi % Uint16Modulus, lo |-> lo % Uint16Modulus]

\* value % n for a Uint32 value and 0 < n < 65536.
Uint32Mod(value, n) ==
    (((value.hi % n) * (Uint16Modulus % n)) + (value.lo % n)) % n

\* ------------------------------------------------------ number <-> string

DecimalDigits == << "0","1","2","3","4","5","6","7","8","9" >>

DigitCharacters == { DecimalDigits[d] : d \in 1..Len(DecimalDigits) }

IsDigit(c) == c \in DigitCharacters

DigitValue(c) == (CHOOSE d \in 1..Len(DecimalDigits) : DecimalDigits[d] = c) - 1

\* String(n) for an integer n >= 0: what assigning a number to input.value or
\* textContent stores.
RECURSIVE NumberToString(_)
NumberToString(n) ==
    IF n < 10 THEN << DecimalDigits[n + 1] >>
    ELSE NumberToString(n \div 10) \o << DecimalDigits[(n % 10) + 1] >>

\* The value of the longest prefix of s made of decimal digits, read left to
\* right with the accumulator acc.
RECURSIVE ParseDigits(_, _)
ParseDigits(s, acc) ==
    IF s = << >> \/ ~IsDigit(Head(s)) THEN acc
    ELSE ParseDigits(Tail(s), acc * 10 + DigitValue(Head(s)))

\* parseInt(s, 10): an optional minus sign, then the leading decimal digits;
\* NaN when there is no digit.
parseInt(s) ==
    IF s = << >> THEN NaN
    ELSE IF Head(s) = "-"
         THEN (IF Tail(s) = << >> \/ ~IsDigit(Head(Tail(s))) THEN NaN
               ELSE Number(0 - ParseDigits(Tail(s), 0)))
         ELSE (IF ~IsDigit(Head(s)) THEN NaN ELSE Number(ParseDigits(s, 0)))

isNaN(x) == x.nan

\* ----------------------------------------------------------- pure functions

\* crypto.getRandomValues(new Uint32Array(length)): the arrays explored.
\* Stream 0 is all zeros; stream 1 starts at the largest value, 2^32 - 1;
\* stream k advances by a stride that is no multiple of any pool length.
getRandomValues(length, streams) ==
    { [ i \in 1..length |-> Uint32(65535 * k, 65535 * k + (i - 1) * k * 7919) ]
        : k \in 0..streams }

\* A thrown Error, and a value returned normally.
Throw(message) == [threw |-> TRUE, value |-> message]
Return(v) == [threw |-> FALSE, value |-> v]

\* Mutant: the loop stops one iteration early.
generateSecurePassword_Short(length, characterPool, randomValues) ==
    IF characterPool = << >>
    THEN Throw("Character pool cannot be empty")
    ELSE Return([ i \in 1..(IF length > 0 THEN length - 1 ELSE 0) |->
                    characterPool[Uint32Mod(randomValues[i], Len(characterPool)) + 1] ])

\* Mutant: the empty-pool check is missing; every index is then NaN, each
\* pushed element undefined, and join("") gives "".
generateSecurePassword_NoCheck(length, characterPool, randomValues) ==
    IF characterPool = << >>
    THEN Return(<< >>)
    ELSE Return([ i \in 1..length |->
                    characterPool[Uint32Mod(randomValues[i], Len(characterPool)) + 1] ])

\* Mutant: a length below 1 is rejected like an empty pool.
generateSecurePassword_LengthChecked(length, characterPool, randomValues) ==
    IF characterPool = << >> \/ length < 1
    THEN Throw("Character pool cannot be empty")
    ELSE Return([ i \in 1..length |->
                    characterPool[Uint32Mod(randomValues[i], Len(characterPool)) + 1] ])

\* generateSecurePassword(length, characterPool), with the array that
\* crypto.getRandomValues filled as a third argument.
generateSecurePassword(length, characterPool, randomValues) ==
    IF characterPool = << >>
    THEN Throw("Character pool cannot be empty")
    ELSE Return([ i \in 1..length |->
                    characterPool[Uint32Mod(randomValues[i], Len(characterPool)) + 1] ])

\* Mutant: the numbers alphabet is appended before the lowercase one.
buildCharacterPool_Reordered(checked) ==
    (IF checked.uppercase THEN CHARACTERS.uppercase ELSE << >>)
    \o (IF checked.numbers THEN CHARACTERS.numbers ELSE << >>)
    \o (IF checked.lowercase THEN CHARACTERS.lowercase ELSE << >>)
    \o (IF checked.symbols THEN CHARACTERS.symbols ELSE << >>)

\* buildCharacterPool(), reading the four checkboxes' checked flags.
buildCharacterPool(checked) ==
    (IF checked.uppercase THEN CHARACTERS.uppercase ELSE << >>)
    \o (IF checked.lowercase THEN CHARACTERS.lowercase ELSE << >>)
    \o (IF checked.numbers THEN CHARACTERS.numbers ELSE << >>)
    \o (IF checked.symbols THEN CHARACTERS.symbols ELSE << >>)

\* Mutant: the WEAK bucket's upper bound is exclusive.
getPasswordStrength_OffByOne(length) ==
    LET T == CONFIG.STRENGTH_THRESHOLDS IN
    IF length = 0 THEN Null
    ELSE IF length >= T.TOO_WEAK.min /\ length <= T.TOO_WEAK.max
         THEN STRENGTH_LABELS.TOO_WEAK
    ELSE IF length >= T.WEAK.min /\ length < T.WEAK.max
         THEN STRENGTH_LABELS.WEAK
    ELSE IF length >= T.MEDIUM.min /\ length <= T.MEDIUM.max
         THEN STRENGTH_LABELS.MEDIUM
    ELSE IF length >= T.STRONG.min /\ length <= T.STRONG.max
         THEN STRENGTH_LABELS.STRONG
    ELSE Null

getPasswordStrength(length) ==
    LET T == CONFIG.STRENGTH_THRESHOLDS IN
    IF length = 0 THEN Null
    ELSE IF length >= T.TOO_WEAK.min /\ length <= T.TOO_WEAK.max
         THEN STRENGTH_LABELS.TOO_WEAK
    ELSE IF length >= T.WEAK.min /\ length <= T.WEAK.max
         THEN STRENGTH_LABELS.WEAK
    ELSE IF length >= T.MEDIUM.min /\ length <= T.MEDIUM.max
         THEN STRENGTH_LABELS.MEDIUM
    ELSE IF length >= T.STRONG.min /\ length <= T.STRONG.max
         THEN STRENGTH_LABELS.STRONG
    ELSE Null

\* getActiveBoxes(strength): the indices of the boxes to fill.
getActiveBoxes(strength) ==
    IF strength = STRENGTH_LABELS.TOO_WEAK THEN {1}
    ELSE IF strength = STRENGTH_LABELS.WEAK THEN {1, 2}
    ELSE IF strength = STRENGTH_LABELS.MEDIUM THEN {1, 2, 3}
    ELSE IF strength = STRENGTH_LABELS.STRONG THEN {1, 2, 3, 4}
    ELSE {}

getStrengthClasses(strength) ==
    IF strength = STRENGTH_LABELS.TOO_WEAK THEN CSS_CLASSES.fullEvalBoxTooWeak
    ELSE IF strength = STRENGTH_LABELS.WEAK THEN CSS_CLASSES.fullEvalBoxWeak
    ELSE IF strength = STRENGTH_LABELS.MEDIUM THEN CSS_CLASSES.fullEvalBoxMedium
    ELSE IF strength = STRENGTH_LABELS.STRONG THEN CSS_CLASSES.fullEvalBoxStrong
    ELSE {}

\* -------------------------------------------------------------------- state

VARIABLES
    lengthInput,             \* elements.lengthInput.value, a string
    lengthOutput,            \* elements.lengthOutput.textContent
    checkboxes,              \* the checked flag of each of elements.checkboxes
    passwordNum,             \* elements.passwordNum: textContent, hidden class
    optionError,             \* elements.optionError: hidden class
    copiedText,              \* elements.copiedText: hidden class
    strengthEvaluationText,  \* elements.strengthEvaluationText.textContent
    evaluationBoxes,         \* the classList of evaluation-box-1..4
    state,                   \* state.currentPassword, state.copiedTimeoutId
    timers,                  \* handles of the setTimeout callbacks not yet run
    pendingWrites,           \* arguments of the writeText promises not yet settled
    clipboard,               \* the text last written to the system clipboard
    copyRequested,           \* state.currentPassword at the click whose copy wrote it
    call                     \* the last direct call of a pure function, with its result

ui == << lengthInput, lengthOutput, checkboxes, passwordNum, optionError,
         strengthEvaluationText, evaluationBoxes >>
copying == << copiedText, timers, pendingWrites, clipboard, copyRequested >>
vars == << ui, copying, state, call >>

BoxIds == 1..4

AllFullClasses ==
    CSS_CLASSES.fullEvalBoxTooWeak \cup CSS_CLASSES.fullEvalBoxWeak
    \cup CSS_CLASSES.fullEvalBoxMedium \cup CSS_CLASSES.fullEvalBoxStrong

\* ------------------------------------------------------ UI update functions

\* updateRangeTrack(value): the text of the length output (the gradient of the
\* track is decoration and is not modelled).
updateRangeTrack(value) == NumberToString(value)

\* resetEvaluationBoxes(), as the new class lists of the boxes.
resetEvaluationBoxes(boxes) ==
    [ b \in BoxIds |-> (boxes[b] \ AllFullClasses) \cup CSS_CLASSES.emptyEvalBox ]

\* Mutant: every box is filled, whatever the strength.
updateStrengthEvaluation_AllBoxes(length, boxes) ==
    LET strength == getPasswordStrength(length)
        cleared == resetEvaluationBoxes(boxes)
    IN IF strength = Null
       THEN [text |-> "", boxes |-> cleared]
       ELSE [text |-> strength,
             boxes |-> [ b \in BoxIds |->
                            (cleared[b] \ CSS_CLASSES.emptyEvalBox)
                                \cup getStrengthClasses(strength) ]]

\* updateStrengthEvaluation(length), as the new label and class lists.
updateStrengthEvaluation(length, boxes) ==
    LET strength == getPasswordStrength(length)
        cleared == resetEvaluationBoxes(boxes)
    IN IF strength = Null
       THEN [text |-> "", boxes |-> cleared]
       ELSE [text |-> strength,
             boxes |-> [ b \in BoxIds |->
                            IF b \in getActiveBoxes(strength)
                            THEN (cleared[b] \ CSS_CLASSES.emptyEvalBox)
                                     \cup getStrengthClasses(strength)
                            ELSE cleared[b] ]]

\* Mutant: the password display is left as it was.
showError_KeepsDisplay(pn) ==
    [optionError |-> [hidden |-> FALSE], passwordNum |-> pn]

\* showError(), as the new optionError and passwordNum.
showError(pn) ==
    [optionError |-> [hidden |-> FALSE],
     passwordNum |-> [pn EXCEPT !.hidden = TRUE]]

\* hideError(), as the new optionError and passwordNum.
hideError(pn) ==
    [optionError |-> [hidden |-> TRUE],
     passwordNum |-> [pn EXCEPT !.hidden = FALSE]]

\* Mutant: the pending timeout is not cleared before a new one is set.
clearPending_Forgotten(pending, id) == pending

\* The test and clearTimeout of showCopiedMessage: the timers still pending.
clearPending(pending, id) ==
    IF id # NoTimeout THEN pending \ {id} ELSE pending

\* showCopiedMessage(): the message is shown and a fresh timer replaces the
\* one recorded in state.copiedTimeoutId. setTimeout returns a handle that no
\* pending timer has.
showCopiedMessage ==
    LET kept == clearPending(timers, state.copiedTimeoutId) IN
    \E id \in (1..MaxTimerId) \ kept :
        /\ copiedText' = [hidden |-> FALSE]
        /\ timers' = kept \cup {id}
        /\ state' = [state EXCEPT !.copiedTimeoutId = id]

\* resetCheckboxes(), as the new checked flags.
resetCheckboxes == [ c \in DOMAIN checkboxes |-> FALSE ]

\* resetUI(). state is not assigned.
resetUI ==
    /\ passwordNum' = hideError([passwordNum EXCEPT !.textContent = << >>]).passwordNum
    /\ optionError' = hideError(passwordNum).optionError
    /\ strengthEvaluationText' = ""
    /\ lengthInput' = NumberToString(CONFIG.PASSWORD_LENGTH.DEFAULT)
    /\ lengthOutput' = updateRangeTrack(CONFIG.PASSWORD_LENGTH.DEFAULT)
    /\ copiedText' = [hidden |-> TRUE]
    /\ checkboxes' = resetCheckboxes
    /\ evaluationBoxes' = resetEvaluationBoxes(evaluationBoxes)
    /\ UNCHANGED << state, timers, pendingWrites, clipboard, copyRequested, call >>

\* ---------------------------------------------------------- initial state

\* The state after App.init(): the range input configured from CONFIG, the
\* listeners set up and resetUI() run on the page as loaded.
Init ==
    /\ lengthInput = NumberToString(CONFIG.PASSWORD_LENGTH.DEFAULT)
    /\ lengthOutput = NumberToString(CONFIG.PASSWORD_LENGTH.DEFAULT)
    /\ checkboxes = [ c \in {ClassNames[i] : i \in DOMAIN ClassNames} |-> FALSE ]
    /\ passwordNum = [textContent |-> << >>, hidden |-> FALSE]
    /\ optionError = [hidden |-> TRUE]
    /\ copiedText = [hidden |-> TRUE]
    /\ strengthEvaluationText = ""
    /\ evaluationBoxes = [ b \in BoxIds |-> CSS_CLASSES.emptyEvalBox ]
    /\ state = [currentPassword |-> << >>, copiedTimeoutId |-> NoTimeout]
    /\ timers = {}
    /\ pendingWrites = << >>
    /\ clipboard = << >>
    /\ copyRequested = << >>
    /\ call = [fn |-> "none"]

\* ------------------------------------------------------------- core actions

\* The positions next to the slider's, among positions: the slider moves one
\* step at a time (an arrow key; a drag or a click on the track is a run of
\* such steps, each firing the same handler, and reaches the same states).
SliderMoves(positions) ==
    LET position == parseInt(lengthInput).n IN
    {position - 1, position + 1} \cap positions

\* The user moves the slider to v (the browser stores String(v) in the range
\* input) and handleRangeInput runs.
HandleRangeInput(v) ==
    /\ lengthInput' = NumberToString(v)
    /\ LET value == parseInt(lengthInput') IN
       lengthOutput' = IF ~isNaN(value) THEN updateRangeTrack(value.n)
                       ELSE lengthOutput
    /\ UNCHANGED << checkboxes, passwordNum, optionError, strengthEvaluationText,
                    evaluationBoxes, copying, state, call >>

\* The user ticks or unticks checkbox c; no listener is attached to it.
ToggleCheckbox(c) ==
    /\ checkboxes' = [checkboxes EXCEPT ![c] = ~@]
    /\ UNCHANGED << lengthInput, lengthOutput, passwordNum, optionError,
                    strengthEvaluationText, evaluationBoxes, copying, state, call >>

\* handleGenerateClick -> generatePassword().
GeneratePassword ==
    LET length == parseInt(lengthInput) IN
    IF isNaN(length) \/ length.n < CONFIG.PASSWORD_LENGTH.MIN
    THEN resetUI
    ELSE IF length.n = 0
    THEN resetUI
    ELSE
      LET evaluation == updateStrengthEvaluation(length.n, evaluationBoxes)
          characterPool == buildCharacterPool(checkboxes)
      IN
      IF characterPool = << >>
      THEN /\ optionError' = showError(passwordNum).optionError
           /\ passwordNum' = showError(passwordNum).passwordNum
           /\ evaluationBoxes' = resetEvaluationBoxes(evaluation.boxes)
           /\ strengthEvaluationText' = ""
           /\ state' = [state EXCEPT !.currentPassword = << >>]
           /\ UNCHANGED << lengthInput, lengthOutput, checkboxes, copying, call >>
      ELSE
        \E randomValues \in getRandomValues(length.n, MaxStream) :
          LET result == generateSecurePassword(length.n, characterPool, randomValues) IN
          /\ strengthEvaluationText' = evaluation.text
          /\ evaluationBoxes' = evaluation.boxes
          \* (the aria-pressed attribute set on success is not modelled)
          /\ IF ~result.threw
             THEN /\ state' = [state EXCEPT !.currentPassword = result.value]
                  /\ optionError' = hideError(passwordNum).optionError
                  /\ passwordNum' =
                        [hideError(passwordNum).passwordNum
                            EXCEPT !.textContent = result.value]
             ELSE /\ optionError' = showError(passwordNum).optionError
                  /\ passwordNum' = showError(passwordNum).passwordNum
                  /\ UNCHANGED state
          /\ UNCHANGED << lengthInput, lengthOutput, checkboxes, copying, call >>

\* ------------------------------------------------------------ copy actions

\* s without its i-th element.
RemoveAt(s, i) == SubSeq(s, 1, i - 1) \o SubSeq(s, i + 1, Len(s))

\* copyPasswordToClipboard() up to its await: nothing happens without a
\* current password; otherwise navigator.clipboard.writeText is called with
\* state.currentPassword and the function suspends until the promise settles.
copyPasswordToClipboard ==
    IF state.currentPassword = << >>
    THEN UNCHANGED vars
    ELSE /\ Len(pendingWrites) < MaxPending
         /\ pendingWrites' = Append(pendingWrites, [text |-> state.currentPassword])
         /\ UNCHANGED << ui, copiedText, timers, clipboard, copyRequested, state, call >>

HandleCopyClick == copyPasswordToClipboard

\* handleKeyboardCopy(event): Enter and Space copy, any other key does nothing.
HandleKeyboardCopy(key) ==
    IF key = "Enter" \/ key = " "
    THEN copyPasswordToClipboard
    ELSE UNCHANGED vars

\* The i-th pending writeText promise resolves: the clipboard holds its
\* argument, and copyPasswordToClipboard resumes with showCopiedMessage().
WriteTextResolve(i) ==
    /\ i \in DOMAIN pendingWrites
    /\ clipboard' = pendingWrites[i].text
    /\ copyRequested' = pendingWrites[i].text
    /\ pendingWrites' = RemoveAt(pendingWrites, i)
    /\ showCopiedMessage
    /\ UNCHANGED << ui, call >>

\* The text the fallback puts in its textarea.
fallbackText == state.currentPassword

\* The i-th pending writeText promise rejects (or navigator.clipboard is
\* missing) and the catch block runs the textarea fallback. execCommand
\* either copies the textarea's text ("copied"), returns false without
\* copying ("refused"), or the fallback throws ("threw": an alert, and no
\* COPIED message).
WriteTextReject(i, outcome) ==
    /\ i \in DOMAIN pendingWrites
    /\ pendingWrites' = RemoveAt(pendingWrites, i)
    /\ IF outcome = "copied"
       THEN /\ clipboard' = fallbackText
            /\ copyRequested' = pendingWrites[i].text
            /\ showCopiedMessage
       ELSE IF outcome = "refused"
       THEN /\ showCopiedMessage
            /\ UNCHANGED << clipboard, copyRequested >>
       ELSE UNCHANGED << clipboard, copyRequested, copiedText, timers, state >>
    /\ UNCHANGED << ui, call >>

FallbackOutcomes == {"copied", "refused", "threw"}

\* The callback set by showCopiedMessage runs, COPIED_MESSAGE_DURATION after
\* it was set.
TimerFire(id) ==
    /\ id \in timers
    /\ timers' = timers \ {id}
    /\ copiedText' = [hidden |-> TRUE]
    /\ state' = [state EXCEPT !.copiedTimeoutId = NoTimeout]
    /\ UNCHANGED << ui, pendingWrites, clipboard, copyRequested, call >>

\* ------------------------------------------------- direct calls of functions

AllCheckedFlags == [ {ClassNames[i] : i \in DOMAIN ClassNames} -> BOOLEAN ]

CallGenerateSecurePassword(length, characterPool, randomValues) ==
    /\ call' = [ fn |-> "generateSecurePassword",
                 length |-> length,
                 characterPool |-> characterPool,
                 result |-> generateSecurePassword(length, characterPool, randomValues) ]
    /\ UNCHANGED << ui, copying, state >>

CallGetPasswordStrength(length) ==
    /\ call' = [ fn |-> "getPasswordStrength",
                 length |-> length,
                 result |-> getPasswordStrength(length) ]
    /\ UNCHANGED << ui, copying, state >>

\* ----------------------------------------------------------- specifications

SliderPositions == CONFIG.PASSWORD_LENGTH.MIN .. CONFIG.PASSWORD_LENGTH.MAX

\* The generator: slider, checkboxes and the generate button.
Next ==
    \/ \E v \in SliderMoves(SliderPositions) : HandleRangeInput(v)
    \/ \E i \in DOMAIN ClassNames : ToggleCheckbox(ClassNames[i])
    \/ GeneratePassword

Spec == Init /\ [][Next]_vars

\* What the user does with the slider and the checkboxes while copies are
\* followed: the slider stays on 0 or 1 and only the uppercase box is ticked
\* and unticked, so that passwords come and go while the state space stays
\* small enough for the liveness check.
CopySliderPositions == {0, 1}
CopyClassNames == {"uppercase"}

\* The generator with the copy control, the clipboard and the COPIED timer.
CopyNext ==
    \/ \E v \in SliderMoves(CopySliderPositions) : HandleRangeInput(v)
    \/ \E c \in CopyClassNames : ToggleCheckbox(c)
    \/ GeneratePassword
    \/ HandleCopyClick
    \/ \E key \in {"Enter", " ", "Tab"} : HandleKeyboardCopy(key)
    \/ \E i \in 1..MaxPending : WriteTextResolve(i)
    \/ \E i \in 1..MaxPending : \E outcome \in FallbackOutcomes : WriteTextReject(i, outcome)
    \/ \E id \in 1..MaxTimerId : TimerFire(id)

CopySpec == Init /\ [][CopyNext]_vars

\* A timer that is set and not cleared runs: the browser's event loop runs
\* every due callback.
CopyFairSpec == CopySpec /\ WF_vars(\E id \in 1..MaxTimerId : TimerFire(id))

\* The pure functions called directly on every input within the bounds.
FnNext ==
    \/ \E length \in SliderPositions :
         \E checked \in AllCheckedFlags :
           \E randomValues \in getRandomValues(length, MaxCallStream) :
             CallGenerateSecurePassword(length, buildCharacterPool(checked), randomValues)
    \/ \E length \in (CONFIG.PASSWORD_LENGTH.MIN - LengthMargin)
                       .. (CONFIG.PASSWORD_LENGTH.MAX + LengthMargin) :
         CallGetPasswordStrength(length)

FnSpec == Init /\ [][FnNext]_vars

\* ------------------------------------------------------------------ claims

\* The characters of a string, as a set.
CharactersOf(str) == { str[j] : j \in 1..Len(str) }

IsGenerateCall == call.fn = "generateSecurePassword"

\* C1: for every length 1..16, every non-empty pool and every outcome of the
\* random source, generateSecurePassword returns (without throwing) a string
\* of exactly that many characters, each one a character of the pool.
C1_LengthAndMembership ==
    (IsGenerateCall /\ call.length >= 1 /\ call.characterPool # << >>)
        => /\ ~call.result.threw
           /\ Len(call.result.value) = call.length
           /\ \A i \in 1..call.length :
                 call.result.value[i] \in CharactersOf(call.characterPool)

\* A 16-character password over all four classes whose characters are not
\* all from one class.
C1_Witness ==
    /\ IsGenerateCall
    /\ call.length = CONFIG.PASSWORD_LENGTH.MAX
    /\ Len(call.characterPool) = 88
    /\ ~call.result.threw
    /\ Len(call.result.value) = 16
    /\ \E i, j \in 1..16 :
          /\ call.result.value[i] \in CharactersOf(CHARACTERS.symbols)
          /\ call.result.value[j] \in CharactersOf(CHARACTERS.lowercase)

\* The bucket table of the specification, by arithmetic: lengths 1..16 fall
\* in bucket (length + 3) \div 4, every other length in none.
TableLabels == << "too weak!", "weak", "medium", "strong" >>
TableStrength(length) ==
    IF length >= 1 /\ length <= 16 THEN TableLabels[(length + 3) \div 4] ELSE Null

BucketsOf(length) ==
    { name \in DOMAIN CONFIG.STRENGTH_THRESHOLDS :
        /\ CONFIG.STRENGTH_THRESHOLDS[name].min <= length
        /\ length <= CONFIG.STRENGTH_THRESHOLDS[name].max }

\* C2: getPasswordStrength depends on the length alone and follows the bucket
\* table: null for 0, too weak for 1..4, weak for 5..8, medium for 9..12,
\* strong for 13..16, null for every other integer; the configured buckets
\* are disjoint and cover 1..16.
C2_StrengthTable ==
    /\ (call.fn = "getPasswordStrength"
           => call.result = TableStrength(call.length))
    /\ \A length \in 1..16 : Cardinality(BucketsOf(length)) = 1

\* A length above every bucket was classified, as null.
C2_Witness ==
    /\ call.fn = "getPasswordStrength"
    /\ call.length > CONFIG.STRENGTH_THRESHOLDS.STRONG.max
    /\ call.result = Null

\* C3: for every length above 0, generateSecurePassword on the empty pool
\* throws its error, returns no password and leaves state (currentPassword
\* included) as it was.
C3_EmptyPoolThrows ==
    [][ (/\ call'.fn = "generateSecurePassword"
         /\ call'.length > 0
         /\ call'.characterPool = << >>)
          => /\ call'.result.threw
             /\ call'.result.value = "Character pool cannot be empty"
             /\ state' = state ]_vars

\* generateSecurePassword was called with the empty pool and length 16.
C3_Witness ==
    /\ IsGenerateCall
    /\ call.length = 16
    /\ call.characterPool = << >>
    /\ call.result.threw

EnabledClasses == { i \in DOMAIN ClassNames : checkboxes[ClassNames[i]] }

\* The number of pool characters that precede class i's alphabet: the sizes
\* of the enabled classes before it in the fixed order.
RECURSIVE PoolOffset(_)
PoolOffset(i) ==
    IF i = 1 THEN 0
    ELSE PoolOffset(i - 1)
         + (IF (i - 1) \in EnabledClasses THEN Len(CHARACTERS[ClassNames[i - 1]]) ELSE 0)

\* C5: whatever the order the boxes were ticked in, the pool holds exactly
\* the alphabets of the enabled classes, each whole and in the order
\* uppercase, lowercase, numbers, symbols; it is the empty string when no
\* class is enabled, and only then.
C5_PoolComposition ==
    LET pool == buildCharacterPool(checkboxes) IN
    /\ Len(pool) = PoolOffset(Len(ClassNames) + 1)
    /\ \A i \in EnabledClasses :
          SubSeq(pool, PoolOffset(i) + 1, PoolOffset(i) + Len(CHARACTERS[ClassNames[i]]))
              = CHARACTERS[ClassNames[i]]
    /\ (pool = << >>) <=> (EnabledClasses = {})

\* Lowercase and symbols are enabled, uppercase and numbers are not, and a
\* password was generated from that pool.
C5_Witness ==
    /\ checkboxes.lowercase /\ checkboxes.symbols
    /\ ~checkboxes.uppercase /\ ~checkboxes.numbers
    /\ state.currentPassword # << >>
    /\ CharactersOf(state.currentPassword) \cap CharactersOf(CHARACTERS.symbols) # {}

\* C6 as claimed: on the Clipboard API path and on the fallback path, under
\* every interleaving with generate clicks, the text on the clipboard is the
\* password that was current when the copy was triggered (nothing is written
\* for a copy triggered without a password).
C6_CopiesPasswordAtTrigger == clipboard = copyRequested

\* The rank of a box row: how many boxes are filled, provided the filled ones
\* are the first ones, each carrying exactly one strength's two classes.
IsEmptyBox(b) == evaluationBoxes[b] = CSS_CLASSES.emptyEvalBox
FilledBoxes == { b \in BoxIds : evaluationBoxes[b] \cap AllFullClasses # {} }

\* C7: a strength label is shown only with a generated password on display
\* (error prompt hidden); it is then the bucket of the displayed password's
\* length and the first rank boxes are filled (1 too weak .. 4 strong);
\* without a label all four boxes are empty.
C7_StrengthMatchesDisplay ==
    /\ strengthEvaluationText # ""
          => /\ optionError.hidden
             /\ ~passwordNum.hidden
             /\ passwordNum.textContent # << >>
             /\ strengthEvaluationText = TableStrength(Len(passwordNum.textContent))
             /\ FilledBoxes = 1 .. ((Len(passwordNum.textContent) + 3) \div 4)
             /\ \A b \in BoxIds \ FilledBoxes : IsEmptyBox(b)
             /\ \A b \in FilledBoxes :
                   evaluationBoxes[b] = getStrengthClasses(strengthEvaluationText)
    /\ strengthEvaluationText = "" => \A b \in BoxIds : IsEmptyBox(b)

\* An 11-character password is displayed and rated medium.
C7_Witness ==
    /\ strengthEvaluationText = "medium"
    /\ Len(passwordNum.textContent) = 11
    /\ ~passwordNum.hidden

\* A step of the generate button: of the three handlers of Next it is the
\* only one that leaves the slider and every checkbox as they are (with a
\* length above 0, when it does not reset the page).
GenerateClick == lengthInput' = lengthInput /\ checkboxes' = checkboxes

\* C8: exactly one of the error prompt and the password display is hidden at
\* all times; and a generate click with a length in 1..16 leaves the prompt
\* visible exactly when no class is enabled, then with the display hidden,
\* no label, empty boxes and no current password, and otherwise with the
\* prompt hidden and the display visible.
C8_ErrorPromptIffNoClass ==
    /\ [](optionError.hidden # passwordNum.hidden)
    /\ [][ (GenerateClick /\ parseInt(lengthInput).n \in 1..16)
             => /\ (~optionError'.hidden) <=> (EnabledClasses = {})
                /\ EnabledClasses = {}
                     => /\ passwordNum'.hidden
                        /\ strengthEvaluationText' = ""
                        /\ \A b \in BoxIds :
                              evaluationBoxes'[b] = CSS_CLASSES.emptyEvalBox
                        /\ state'.currentPassword = << >>
                /\ EnabledClasses # {}
                     => (optionError'.hidden /\ ~passwordNum'.hidden) ]_vars

\* The prompt is shown over a password generated earlier, with no class
\* enabled and a length in 1..16 on the slider.
C8_Witness ==
    /\ ~optionError.hidden
    /\ passwordNum.hidden
    /\ passwordNum.textContent # << >>
    /\ EnabledClasses = {}
    /\ parseInt(lengthInput).n \in 1..16

\* A copy completed: showCopiedMessage ran.
CopyShown ==
    \/ \E i \in 1..MaxPending : WriteTextResolve(i)
    \/ \E i \in 1..MaxPending : \E outcome \in {"copied", "refused"} : WriteTextReject(i, outcome)

\* C9: at most one hide timer is pending, and it is the one recorded in
\* state.copiedTimeoutId; the COPIED message is visible only while a timer is
\* pending; and unless copies keep completing for ever, the message ends up
\* hidden with copiedTimeoutId null.
C9_CopiedMessageTemporary ==
    /\ [](/\ Cardinality(timers) <= 1
          /\ timers = (IF state.copiedTimeoutId = NoTimeout THEN {}
                       ELSE {state.copiedTimeoutId})
          /\ ~copiedText.hidden => timers # {})
    /\ \/ []<><<CopyShown>>_vars
       \/ <>[](copiedText.hidden /\ state.copiedTimeoutId = NoTimeout)

\* The COPIED message is showing after a copy reached the clipboard, with
\* its hide timer pending.
C9_Witness ==
    /\ ~copiedText.hidden
    /\ clipboard # << >>
    /\ timers = {state.copiedTimeoutId}

\* C10 as claimed: the password a copy would take (state.currentPassword) is
\* the one on display: the display's text while the display is visible,
\* and empty whenever the display is blank or the error prompt is shown.
C10_CurrentIsDisplayed ==
    state.currentPassword =
        (IF passwordNum.hidden THEN << >> ELSE passwordNum.textContent)

====
